---- MODULE Spec2Model ----
(***************************************************************************)
(* Model of server.js: the preset selection, the code wrappers (anti-     *)
(* bypass guard and password gate), the artifact naming, and the          *)
(* socket.io "start" handler with its progress / done / error events.     *)
(*                                                                         *)
(* Source text is modelled as a sequence of lines, a preset name as a     *)
(* sequence of characters, a password as its sequence of bytes, a path    *)
(* as a sequence of segments, and a file name as a string.                *)
(***************************************************************************)
EXTENDS Integers, Sequences, FiniteSets, TLC

\* ---------------------------------------------------------------- bounds
\* Number of Date.now() ticks the clock may advance.
MaxTicks == 1
\* Maximal number of lines of a source text drawn in the wrapper specification.
MaxLen == 2
\* Maximal number of times the wrapper is applied on top of its own output.
MaxLayers == 2

\* First value Date.now() returns (9, so that one- and two-digit stamps occur).
StartClock == 9

\* ------------------------------------------------------- generic helpers
\* s occurs in t as a contiguous block starting at index i.
OccursAt(s, t, i) ==
  /\ i >= 1
  /\ i + Len(s) - 1 <= Len(t)
  /\ \A k \in 1..Len(s) : t[i + k - 1] = s[k]

Occurrences(s, t) == {i \in 1..Len(t) : OccursAt(s, t, i)}

Contains(s, t) == s = <<>> \/ Occurrences(s, t) # {}

\* Index of the first occurrence of s in t, 0 when there is none.
FirstIndex(s, t) ==
  IF Occurrences(s, t) = {} THEN 0
  ELSE CHOOSE i \in Occurrences(s, t) : \A k \in Occurrences(s, t) : i <= k

\* JavaScript optional values: undefined / a value.
None == [some |-> FALSE, v |-> <<>>]
Some(x) == [some |-> TRUE, v |-> x]

\* JavaScript truthiness of an optional string: undefined and "" are falsy.
Truthy(o) == o.some /\ o.v # <<>>

\* (x || "") for an optional string.
OrEmpty(o) == IF Truthy(o) THEN o.v ELSE <<>>

\* --------------------------------------------------------------- Date.now
DigitChars == <<"0", "1", "2", "3", "4", "5", "6", "7", "8", "9">>

\* Decimal rendering of a non-negative integer inside a template literal.
RECURSIVE Digits(_)
Digits(n) ==
  IF n < 10 THEN DigitChars[n + 1]
  ELSE Digits(n \div 10) \o DigitChars[(n % 10) + 1]

\* --------------------------------------------------- String.toLowerCase
UpperChars == <<"A", "B", "C", "D", "E", "F", "G", "H", "I", "J", "K", "L", "M",
                "N", "O", "P", "Q", "R", "S", "T", "U", "V", "W", "X", "Y", "Z">>
LowerChars == <<"a", "b", "c", "d", "e", "f", "g", "h", "i", "j", "k", "l", "m",
                "n", "o", "p", "q", "r", "s", "t", "u", "v", "w", "x", "y", "z">>

LowerChar(c) ==
  IF \E i \in 1..26 : UpperChars[i] = c
  THEN LowerChars[CHOOSE i \in 1..26 : UpperChars[i] = c]
  ELSE c

toLowerCase(s) == [i \in 1..Len(s) |-> LowerChar(s[i])]

\* ------------------------------------------------------- preset registry
NoLock == {}
FullLock == {"selfDefending", "antiDebug", "integrity", "tamperProtection"}

getUltraSafeConfig ==
  [preset |-> "ultra-safe", target |-> "node", identifierGenerator |-> "zeroWidth",
   lock |-> NoLock, rgf |-> "false", calculator |-> "true", minify |-> "true"]

getNebulaObfuscationConfig ==
  [preset |-> "nebula", target |-> "node", identifierGenerator |-> "NX<4 latin>",
   lock |-> FullLock, rgf |-> "true", calculator |-> "absent", minify |-> "absent"]

getNovaObfuscationConfig ==
  [preset |-> "nova", target |-> "node", identifierGenerator |-> "var_<base36>",
   lock |-> {"antiDebug", "integrity", "selfDefending"}, rgf |-> "absent",
   calculator |-> "false", minify |-> "true"]

getArabObfuscationConfig ==
  [preset |-> "arab", target |-> "node", identifierGenerator |-> "arabic[3..6]",
   lock |-> FullLock, rgf |-> "absent", calculator |-> "true", minify |-> "absent"]

getJapanObfuscationConfig ==
  [preset |-> "japan", target |-> "node", identifierGenerator |-> "kana[3..6]",
   lock |-> FullLock, rgf |-> "absent", calculator |-> "true", minify |-> "absent"]

\* Placeholder of a configuration variable that was never assigned.
NoConfig ==
  [preset |-> "", target |-> "", identifierGenerator |-> "",
   lock |-> NoLock, rgf |-> "absent", calculator |-> "absent", minify |-> "absent"]

\* A call either returns a value or throws an error with a message.
Returned(x) == [ok |-> TRUE, val |-> x, message |-> ""]
Thrown(msg) == [ok |-> FALSE, val |-> NoConfig, message |-> msg]

\* getDefaultConfig is called but declared nowhere in server.js: evaluating
\* the identifier throws a ReferenceError.
getDefaultConfig == Thrown("getDefaultConfig is not defined")

\* The conditional chain of the "start" handler that picks the configuration.
selectPreset(preset) ==
  LET p == toLowerCase(OrEmpty(preset)) IN
  IF p = <<"n", "o", "v", "a">> THEN Returned(getNovaObfuscationConfig)
  ELSE IF p = <<"n", "e", "b", "u", "l", "a">> THEN Returned(getNebulaObfuscationConfig)
  ELSE IF p = <<"a", "r", "a", "b">> THEN Returned(getArabObfuscationConfig)
  ELSE IF p = <<"j", "a", "p", "a", "n">> THEN Returned(getJapanObfuscationConfig)
  ELSE getDefaultConfig

RecognizedPresets ==
  {<<"n", "o", "v", "a">>, <<"n", "e", "b", "u", "l", "a">>,
   <<"a", "r", "a", "b">>, <<"j", "a", "p", "a", "n">>}

\* ----------------------------------------------------------- base64
B64Chars == <<"A", "B", "C", "D", "E", "F", "G", "H", "I", "J", "K", "L", "M",
              "N", "O", "P", "Q", "R", "S", "T", "U", "V", "W", "X", "Y", "Z",
              "a", "b", "c", "d", "e", "f", "g", "h", "i", "j", "k", "l", "m",
              "n", "o", "p", "q", "r", "s", "t", "u", "v", "w", "x", "y", "z",
              "0", "1", "2", "3", "4", "5", "6", "7", "8", "9", "+", "/">>

B64(n) == B64Chars[n + 1]

\* Buffer.from(password).toString("base64") on the password's bytes.
RECURSIVE toBase64(_)
toBase64(b) ==
  IF Len(b) = 0 THEN <<>>
  ELSE IF Len(b) = 1 THEN
    <<B64(b[1] \div 4), B64((b[1] % 4) * 16), "=", "=">>
  ELSE IF Len(b) = 2 THEN
    <<B64(b[1] \div 4), B64((b[1] % 4) * 16 + b[2] \div 16),
      B64((b[2] % 16) * 4), "=">>
  ELSE
    <<B64(b[1] \div 4), B64((b[1] % 4) * 16 + b[2] \div 16),
      B64((b[2] % 16) * 4 + b[3] \div 64), B64(b[3] % 64)>>
    \o toBase64(SubSeq(b, 4, Len(b)))

\* ------------------------------------------------------------ wrappers
\* The anti-bypass guard text, line by line (abridged to its distinct lines).
TByypas ==
  <<"(async () => {",
    "const snapshot = fs.readFileSync(mainFile, 'utf8');",
    "setInterval(() => { if (snapshot !== now) process.abort(); }, 2000);",
    "if (A.interceptors.request.handlers.length > 0) process.abort();",
    "Object.freeze(A); Object.seal(A);",
    "})();">>

\* The password gate's lines before the embedded base64 literal ...
GateOpen ==
  <<"(async () => {",
    "const readline = require('readline');",
    "const chalk = require('chalk');",
    "const passwordBuffer = Buffer.from('">>

\* ... between the literal and the payload (the rl.question callback opens) ...
GateCallbackOpen ==
  <<"', 'base64');",
    "const correctPassword = passwordBuffer.toString('utf8');",
    "rl.question('> ', (inputPassword) => {",
    "if (inputPassword !== correctPassword) { process.exit(1); }">>

\* ... and after the payload (the callback and the gate close).
GateCallbackClose == <<"rl.close();", "});", "})();">>

createPasswordTemplate_GuardLast(encodedPassword, originalCode) ==
  GateOpen \o encodedPassword \o GateCallbackOpen
  \o originalCode \o GateCallbackClose \o TByypas

createPasswordTemplate(encodedPassword, originalCode) ==
  TByypas \o GateOpen \o encodedPassword \o GateCallbackOpen
  \o originalCode \o GateCallbackClose

\* The text obfuscateWithOptions hands to obfuscateAndWrite (its `base`).
obfuscateWithOptionsBase(code, addAntiBypass, password) ==
  LET base1 == IF addAntiBypass THEN TByypas \o code ELSE code IN
  IF Truthy(password)
  THEN createPasswordTemplate(toBase64(password.v), base1)
  ELSE base1

\* ---------------------------------------------------------- file system
ROOT == <<"root">>
UPLOAD_DIR == ROOT \o <<"uploads">>
OUTPUT_DIR == ROOT \o <<"output">>

\* path.join: concatenates the segments and normalizes "." and "..".
RECURSIVE normalize(_, _)
normalize(done, rest) ==
  IF rest = <<>> THEN done
  ELSE IF Head(rest) = "." THEN normalize(done, Tail(rest))
  ELSE IF Head(rest) = ".." THEN
    normalize(IF done = <<>> THEN <<>> ELSE SubSeq(done, 1, Len(done) - 1), Tail(rest))
  ELSE normalize(Append(done, Head(rest)), Tail(rest))

pathJoin(dir, file) == normalize(<<>>, dir \o file)

\* The uploaded files (name -> text) the upload route has stored.
Uploads == [n \in {"u1.js", "u2.js"} |-> IF n = "u1.js" THEN <<"a">> ELSE <<"b">>]

\* Text of the server's own main file, which lives in ROOT.
ServerJs == <<"server">>

\* fs.existsSync on a normalized path: the server file, the three
\* directories, the uploads and the artifacts written so far.
existsSyncIn(out, p) ==
  \/ p \in {ROOT, UPLOAD_DIR, OUTPUT_DIR, ROOT \o <<"public">>}
  \/ p = ROOT \o <<"server.js">>
  \/ Len(p) = 3 /\ SubSeq(p, 1, 2) = UPLOAD_DIR /\ p[3] \in DOMAIN Uploads
  \/ Len(p) = 3 /\ SubSeq(p, 1, 2) = OUTPUT_DIR /\ \E f \in out : f.name = p[3]

\* fs.readFile(src, "utf8") when it succeeds.
readFileText(p) ==
  IF p = ROOT \o <<"server.js">> THEN ServerJs ELSE Uploads[p[3]]

\* ------------------------------------------------------------- events
Progress(status, percent) ==
  [type |-> "progress", status |-> status, percent |-> percent,
   filename |-> "", download |-> "", message |-> ""]
Done(outName) ==
  [type |-> "done", status |-> "", percent |-> -1,
   filename |-> outName, download |-> "/download/" \o outName, message |-> ""]
Error(msg) ==
  [type |-> "error", status |-> "", percent |-> -1,
   filename |-> "", download |-> "", message |-> msg]

successEvents_NoDone(outName) ==
  <<Progress("Writing result...", 90), Progress("Finished!", 100)>>

successEvents_Regress(outName) ==
  <<Progress("Writing result...", 40), Done(outName), Progress("Finished!", 100)>>

\* The emits that follow the return of obfuscateWithOptions.
successEvents(outName) ==
  <<Progress("Writing result...", 90), Done(outName), Progress("Finished!", 100)>>

catchEvents_ThenProgress(msg) == <<Error(msg), Progress("Finished!", 100)>>

\* The emit of the catch block.
catchEvents(msg) == <<Error(msg)>>

\* -------------------------------------------------------- artifact names
identifierPrefix_NoStamp(now) == "enc_"

\* The prefix the "start" handler passes: `enc_${Date.now()}_`.
identifierPrefix(now) == "enc_" \o Digits(now) \o "_"

\* obfuscateAndWrite: `${prefix}${Date.now()}.js`.
artifactName(prefix, now) == prefix \o Digits(now) \o ".js"

\* obfuscateAndWrite's normalization of the engine's result to text.
normalizeResult(result) ==
  IF result.shape = "string" THEN result.text
  ELSE IF result.shape = "code" THEN result.text
  ELSE IF result.shape = "object" THEN <<"[object Object]">>
  ELSE <<"null">>

\* The engine's output for a text and a configuration (opaque: a tagged copy).
engineText(text, cfg) == <<"/* " \o cfg.preset \o " */">> \o text

\* ------------------------------------------------------------ the state
JobIds == {1, 2}

VARIABLES
  jobs,      \* per "start" request: where its handler stands and what it holds
  output,    \* the files of OUTPUT_DIR: records [name, content, writer, complete]
  clock,     \* the value Date.now() returns
  wcode,     \* wrapper run: the original source text
  wpassword, \* wrapper run: the password option
  wanti,     \* wrapper run: the addAntiBypass option
  wtext,     \* wrapper run: the latest wrapped text
  wprev,     \* wrapper run: the text before the latest application
  wlayers    \* wrapper run: how many times the wrapper was applied

jobVars == <<jobs, output, clock>>
wrapVars == <<wcode, wpassword, wanti, wtext, wprev, wlayers>>
vars == <<jobs, output, clock, wcode, wpassword, wanti, wtext, wprev, wlayers>>

IdleJob ==
  [pc |-> "idle", file |-> <<>>, preset |-> None, password |-> None,
   antibypass |-> FALSE, events |-> <<>>, src |-> <<>>, cfg |-> NoConfig,
   text |-> <<>>, engineCalled |-> FALSE, prefix |-> "", fname |-> "",
   obf |-> <<>>, cause |-> "", t1 |-> 0, t2 |-> 0]

\* The requests a client sends: the fields of the "start" event's data.
RequestFiles ==
  {<<>>, <<"missing.js">>, <<"u1.js">>, <<"u2.js">>, <<"..", "server.js">>}
RequestPresets ==
  {None, Some(<<>>), Some(<<"b", "o", "g", "u", "s">>), Some(<<"n", "o", "v", "a">>),
   Some(<<"N", "e", "b", "u", "l", "a">>)}
RequestPasswords == {None, Some(<<120>>)}

\* Every file with every preset, and every wrapping option on one upload.
Requests ==
  [file : RequestFiles, preset : RequestPresets,
   password : {None}, antibypass : {FALSE}]
  \cup
  [file : {<<"u1.js">>}, preset : {Some(<<"n", "o", "v", "a">>)},
   password : RequestPasswords, antibypass : BOOLEAN]

EngineShapes == {"string", "code", "object", "null"}

JobInit ==
  /\ jobs = [j \in JobIds |-> IdleJob]
  /\ output = {}
  /\ clock = StartClock

WrapIdle ==
  /\ wcode = <<>>
  /\ wpassword = None
  /\ wanti = FALSE
  /\ wtext = <<>>
  /\ wprev = <<>>
  /\ wlayers = 0

Init == JobInit /\ WrapIdle

Emit(job, evs) == [job EXCEPT !.events = job.events \o evs]

\* The catch block: the error's message is emitted and the handler returns.
Fail(job, cause, msg) ==
  [Emit(job, catchEvents(msg)) EXCEPT !.pc = "finished", !.cause = cause]

\* socket.on("start"): destructuring, the two checks, the first progress
\* event, up to the await of fs.readFile.
Start(j, data) ==
  /\ jobs[j].pc = "idle"
  /\ LET job == [jobs[j] EXCEPT !.file = data.file, !.preset = data.preset,
                                !.password = data.password,
                                !.antibypass = data.antibypass]
         src == pathJoin(UPLOAD_DIR, data.file)
     IN jobs' = [jobs EXCEPT ![j] =
          IF data.file = <<>>
          THEN [Emit(job, <<Error("No file specified.")>>)
                  EXCEPT !.pc = "finished", !.cause = "nofile"]
          ELSE IF ~existsSyncIn(output, src)
          THEN [Emit(job, <<Error("File not found.")>>)
                  EXCEPT !.pc = "finished", !.cause = "notfound"]
          ELSE [Emit(job, <<Progress("Reading file...", 10)>>)
                  EXCEPT !.pc = "reading", !.src = src]]
  /\ UNCHANGED <<output, clock, wrapVars>>

\* fs.readFile resolved: preset selection, wrapping, and the call of the
\* engine inside obfuscateAndWrite, up to the await of JsConfuser.obfuscate.
ReadDone(j) ==
  /\ jobs[j].pc = "reading"
  /\ LET job == Emit(jobs[j], <<Progress("Selecting preset...", 25)>>)
         sel == selectPreset(job.preset)
         code == readFileText(job.src)
     IN jobs' = [jobs EXCEPT ![j] =
          IF ~sel.ok THEN Fail(job, "preset", sel.message)
          ELSE [Emit(job, <<Progress("Obfuscating...", 50)>>)
                  EXCEPT !.pc = "obfuscating",
                         !.cfg = sel.val,
                         !.t1 = clock,
                         !.prefix = identifierPrefix(clock),
                         !.text = obfuscateWithOptionsBase(
                                    code, job.antibypass, job.password),
                         !.engineCalled = TRUE]]
  /\ UNCHANGED <<output, clock, wrapVars>>

\* fs.readFile rejected (the upload was removed after the existence check).
ReadFail(j) ==
  /\ jobs[j].pc = "reading"
  /\ jobs' = [jobs EXCEPT ![j] =
       Fail(jobs[j], "read", "ENOENT: no such file or directory")]
  /\ UNCHANGED <<output, clock, wrapVars>>

\* JsConfuser.obfuscate resolved: the result is normalized, the file name is
\* computed and fs.writeFile is started.
EngineDone(j, shape) ==
  /\ jobs[j].pc = "obfuscating"
  /\ LET result == [shape |-> shape, text |-> engineText(jobs[j].text, jobs[j].cfg)]
     IN jobs' = [jobs EXCEPT ![j] =
          [jobs[j] EXCEPT !.pc = "writing",
                          !.obf = normalizeResult(result),
                          !.t2 = clock,
                          !.fname = artifactName(jobs[j].prefix, clock)]]
  /\ UNCHANGED <<output, clock, wrapVars>>

\* JsConfuser.obfuscate rejected.
EngineFail(j) ==
  /\ jobs[j].pc = "obfuscating"
  /\ jobs' = [jobs EXCEPT ![j] = Fail(jobs[j], "engine", "engine error")]
  /\ UNCHANGED <<output, clock, wrapVars>>

\* fs.writeFile creates or truncates the file and writes the whole text.
WriteOk(j) ==
  /\ jobs[j].pc = "writing"
  /\ output' = {f \in output : f.name # jobs[j].fname} \cup
       {[name |-> jobs[j].fname, content |-> jobs[j].obf,
         writer |-> j, complete |-> TRUE]}
  /\ jobs' = [jobs EXCEPT ![j].pc = "written"]
  /\ UNCHANGED <<clock, wrapVars>>

\* fs.writeFile fails: either before the file is opened (nothing on disk
\* changes) or after it was created or truncated (a partial file stays).
WriteFail(j, opened) ==
  /\ jobs[j].pc = "writing"
  /\ output' =
       IF opened
       THEN {f \in output : f.name # jobs[j].fname} \cup
              {[name |-> jobs[j].fname, content |-> <<>>,
                writer |-> j, complete |-> FALSE]}
       ELSE output
  /\ jobs' = [jobs EXCEPT ![j].pc = "writefailed"]
  /\ UNCHANGED <<clock, wrapVars>>

\* The handler resumes after obfuscateWithOptions returned the file name.
Completed(j) ==
  /\ jobs[j].pc = "written"
  /\ jobs' = [jobs EXCEPT ![j] =
       [Emit(jobs[j], successEvents(jobs[j].fname)) EXCEPT !.pc = "finished"]]
  /\ UNCHANGED <<output, clock, wrapVars>>

\* The handler resumes in the catch block after fs.writeFile rejected.
WriteRejected(j) ==
  /\ jobs[j].pc = "writefailed"
  /\ jobs' = [jobs EXCEPT ![j] =
       Fail(jobs[j], "write", "ENOSPC: no space left on device")]
  /\ UNCHANGED <<output, clock, wrapVars>>

\* Time passes.
Tick ==
  /\ clock < StartClock + MaxTicks
  /\ clock' = clock + 1
  /\ UNCHANGED <<jobs, output, wrapVars>>

Next ==
  \/ \E j \in JobIds, data \in Requests : Start(j, data)
  \/ \E j \in JobIds : ReadDone(j)
  \/ \E j \in JobIds : ReadFail(j)
  \/ \E j \in JobIds, shape \in EngineShapes : EngineDone(j, shape)
  \/ \E j \in JobIds : EngineFail(j)
  \/ \E j \in JobIds : WriteOk(j)
  \/ \E j \in JobIds, opened \in BOOLEAN : WriteFail(j, opened)
  \/ \E j \in JobIds : Completed(j)
  \/ \E j \in JobIds : WriteRejected(j)
  \/ Tick

Spec == Init /\ [][Next]_vars

\* ------------------------------------------------- wrapper specification
CodeLines == {"a", "b", "(async () => {", "})();"}

RECURSIVE SeqsUpTo(_, _)
SeqsUpTo(S, n) ==
  IF n = 0 THEN {<<>>}
  ELSE LET shorter == SeqsUpTo(S, n - 1)
       IN shorter \cup {Append(s, x) : s \in shorter, x \in S}

WrapPasswords ==
  {None, Some(<<>>), Some(<<120>>), Some(<<115, 101, 99, 114, 101, 116>>)}

InitWrap ==
  /\ JobInit
  /\ wcode \in SeqsUpTo(CodeLines, MaxLen)
  /\ wpassword \in WrapPasswords
  /\ wanti \in BOOLEAN
  /\ wtext = wcode
  /\ wprev = wcode
  /\ wlayers = 0

\* The wrapper is applied to the latest text with the run's options.
Wrap ==
  /\ wlayers < MaxLayers
  /\ wprev' = wtext
  /\ wtext' = obfuscateWithOptionsBase(wtext, wanti, wpassword)
  /\ wlayers' = wlayers + 1
  /\ UNCHANGED <<wcode, wpassword, wanti, jobVars>>

NextWrap == Wrap

SpecWrap == InitWrap /\ [][NextWrap]_vars

\* ------------------------------------------------------ reading the state
Finished(j) == jobs[j].pc = "finished"

ProgressOf(evs) == SelectSeq(evs, LAMBDA e : e.type = "progress")
TerminalsOf(evs) == SelectSeq(evs, LAMBDA e : e.type \in {"done", "error"})
PercentsOf(evs) == [i \in 1..Len(ProgressOf(evs)) |-> ProgressOf(evs)[i].percent]

HasEvent(j, type) == \E i \in 1..Len(jobs[j].events) : jobs[j].events[i].type = type
HasPercent(j, pct) ==
  \E i \in 1..Len(jobs[j].events) :
    jobs[j].events[i].type = "progress" /\ jobs[j].events[i].percent = pct

NonDecreasing(s) == \A i, k \in 1..Len(s) : i <= k => s[i] <= s[k]

\* The request names a file that the upload route stored in UPLOAD_DIR.
NamesUpload(file) == Len(file) = 1 /\ file[1] \in DOMAIN Uploads

RecognizedPreset(preset) == toLowerCase(OrEmpty(preset)) \in RecognizedPresets

WrittenBy(j) == {f \in output : f.writer = j}

\* ------------------------------------------------------------------ C1
\* C1: a started job that names an existing upload and whose preset is
\* absent, empty or unrecognized resolves to the ultra-safe configuration and
\* reaches the engine; unless the read, the engine or the write fails, it ends
\* with a 'done' event and no 'error' event.
CexC1 ==
  \A j \in JobIds :
    ( /\ NamesUpload(jobs[j].file)
      /\ ~RecognizedPreset(jobs[j].preset)
      /\ jobs[j].pc \notin {"idle", "reading"}
      /\ jobs[j].cause # "read" )
    => /\ jobs[j].cfg = getUltraSafeConfig
       /\ jobs[j].engineCalled
       /\ (Finished(j) /\ jobs[j].cause \notin {"engine", "write"})
            => (HasEvent(j, "done") /\ ~HasEvent(j, "error"))

\* ------------------------------------------------------------------ C2
\* C2: a job has emitted no terminal event while its handler runs and exactly
\* one terminal event ('done' or 'error') once its handler has returned,
\* whatever the outcome of the checks, the read, the preset selection, the
\* engine call and the write.
InvC2 ==
  \A j \in JobIds :
    /\ Len(TerminalsOf(jobs[j].events)) <= 1
    /\ Finished(j) => Len(TerminalsOf(jobs[j].events)) = 1
    /\ ~Finished(j) => Len(TerminalsOf(jobs[j].events)) = 0

WitC2 ==
  \E j, k \in JobIds :
    /\ Finished(j) /\ HasEvent(j, "done")
    /\ Finished(k) /\ HasEvent(k, "error") /\ jobs[k].cause = "write"

\* ------------------------------------------------------------------ C3
\* C3: for a job that succeeded, the percents of its progress events are
\* non-decreasing in emission order, exactly one of them is 100 and it is the
\* job's last event, and it is paired with the single 'done' event emitted
\* right before it, which carries the artifact's file name and download path.
InvC3 ==
  \A j \in JobIds :
    (Finished(j) /\ HasEvent(j, "done")) =>
      LET evs == jobs[j].events
          n == Len(evs)
          pcts == PercentsOf(evs)
      IN /\ NonDecreasing(pcts)
         /\ Cardinality({i \in 1..Len(pcts) : pcts[i] = 100}) = 1
         /\ n >= 2
         /\ evs[n].type = "progress" /\ evs[n].percent = 100
         /\ evs[n - 1].type = "done"
         /\ Len(TerminalsOf(evs)) = 1
         /\ evs[n - 1].filename = jobs[j].fname
         /\ evs[n - 1].filename # ""
         /\ evs[n - 1].download = "/download/" \o jobs[j].fname

WitC3 ==
  \E j \in JobIds :
    /\ Finished(j) /\ HasEvent(j, "done")
    /\ PercentsOf(jobs[j].events) = <<10, 25, 50, 90, 100>>

\* ------------------------------------------------------------------ C4
\* C4 as stated: once a job has emitted its terminal event ('done' or
\* 'error'), none of its later events is a 'progress' event.
CexC4 ==
  \A j \in JobIds :
    \A i, k \in 1..Len(jobs[j].events) :
      (i < k /\ jobs[j].events[i].type \in {"done", "error"})
        => jobs[j].events[k].type # "progress"

\* C4 as amended: an 'error' event is the job's last event; a 'done' event is
\* followed by exactly one more event, the progress event (Finished!, 100).
InvC4 ==
  \A j \in JobIds :
    LET evs == jobs[j].events
        n == Len(evs)
    IN \A i \in 1..n :
         /\ evs[i].type = "error" => i = n
         /\ evs[i].type = "done" =>
              (i = n - 1 /\ evs[n] = Progress("Finished!", 100))

WitC4 ==
  \E j, k \in JobIds :
    /\ Finished(j) /\ HasEvent(j, "done")
    /\ Finished(k) /\ HasEvent(k, "error") /\ jobs[k].cause = "engine"
    /\ HasPercent(k, 50)

\* ------------------------------------------------------------------ C5
\* C5: a started job whose file name is absent or names no file of the upload
\* directory has emitted exactly one event, an 'error'; the engine was not
\* invoked for it and it wrote no file to the output directory.
CexC5 ==
  \A j \in JobIds :
    (jobs[j].pc # "idle" /\ ~NamesUpload(jobs[j].file)) =>
      /\ Len(jobs[j].events) = 1
      /\ jobs[j].events[1].type = "error"
      /\ ~jobs[j].engineCalled
      /\ WrittenBy(j) = {}

\* ------------------------------------------------------------------ C6
\* The message each failure carries.
ExpectedMessage(cause) ==
  CASE cause = "nofile" -> "No file specified."
    [] cause = "notfound" -> "File not found."
    [] cause = "read" -> "ENOENT: no such file or directory"
    [] cause = "preset" -> "getDefaultConfig is not defined"
    [] cause = "engine" -> "engine error"
    [] cause = "write" -> "ENOSPC: no space left on device"
    [] OTHER -> ""

\* C6: a job that ended with an 'error' event has left no file in the output
\* directory and its error event carries the message of the failure; once
\* every started handler has returned, the files of the output directory are
\* exactly the files named by the 'done' events.
CexC6 ==
  /\ \A j \in JobIds :
       (Finished(j) /\ HasEvent(j, "error")) =>
         /\ WrittenBy(j) = {}
         /\ jobs[j].events[Len(jobs[j].events)].message = ExpectedMessage(jobs[j].cause)
  /\ (\A j \in JobIds : jobs[j].pc \in {"idle", "finished"}) =>
       {f.name : f \in output} =
         {jobs[j].fname : j \in {k \in JobIds : HasEvent(k, "done")}}

\* ------------------------------------------------------------------ C9
\* C9: the artifact name is determined by the two timestamps alone: two jobs
\* that computed a file name computed the same name exactly when both their
\* start-time stamps and their write-time stamps coincide; the output
\* directory holds one file per name (a later write replaces the earlier
\* file), and a 'done' event references the name the job computed.
InvC9 ==
  /\ \A j, k \in JobIds :
       (jobs[j].fname # "" /\ jobs[k].fname # "") =>
         ( (jobs[j].t1 = jobs[k].t1 /\ jobs[j].t2 = jobs[k].t2)
           <=> jobs[j].fname = jobs[k].fname )
  /\ \A f, g \in output : f.name = g.name => f = g
  /\ \A j \in JobIds : \A i \in 1..Len(jobs[j].events) :
       jobs[j].events[i].type = "done" => jobs[j].events[i].filename = jobs[j].fname

\* Two jobs with coinciding stamps both emitted 'done' for the same file name
\* and the file holds only the later writer's text.
WitC9 ==
  \E j, k \in JobIds :
    /\ j # k
    /\ Finished(j) /\ HasEvent(j, "done")
    /\ Finished(k) /\ HasEvent(k, "done")
    /\ jobs[j].t1 = jobs[k].t1 /\ jobs[j].t2 = jobs[k].t2
    /\ jobs[j].fname = jobs[k].fname
    /\ jobs[j].obf # jobs[k].obf
    /\ output = {[name |-> jobs[k].fname, content |-> jobs[k].obf,
                  writer |-> k, complete |-> TRUE]}

\* ----------------------------------------------------------------- C10
\* C10: each milestone is emitted before the step it names: 10 before the
\* read, 25 before the preset is resolved, 50 before the engine is invoked and
\* 90 before the artifact is written; so a job whose write was attempted, or
\* that failed while persisting, has emitted its 90% event.
CexC10 ==
  \A j \in JobIds :
    /\ jobs[j].pc \in {"reading", "obfuscating", "writing", "written", "writefailed"}
         => HasPercent(j, 10)
    /\ jobs[j].cfg # NoConfig => HasPercent(j, 25)
    /\ jobs[j].engineCalled => HasPercent(j, 50)
    /\ (jobs[j].pc \in {"written", "writefailed"} \/ WrittenBy(j) # {})
         => HasPercent(j, 90)
    /\ (Finished(j) /\ jobs[j].cause = "write") => HasPercent(j, 90)

\* ------------------------------------------------------------------ C7
GuardAt(text) == FirstIndex(TByypas, text)
GateAt(text) == FirstIndex(GateOpen, text)

\* C7: wrapping with addAntiBypass and a non-empty password yields a text in
\* which an anti-bypass block starts before the password gate's block and in
\* which the original source occurs verbatim; each application changes the
\* text and adds one password gate.
InvC7 ==
  (wlayers >= 1 /\ wanti /\ Truthy(wpassword)) =>
    /\ GuardAt(wtext) >= 1
    /\ GateAt(wtext) >= 1
    /\ GuardAt(wtext) < GateAt(wtext)
    /\ Contains(wcode, wtext)
    /\ wtext # wprev
    /\ Len(wtext) > Len(wprev)
    /\ Cardinality(Occurrences(GateOpen, wtext)) = wlayers

WitC7 ==
  /\ wlayers = 2 /\ wanti /\ Truthy(wpassword)
  /\ wcode # <<>>
  /\ Contains(wcode, wtext)

\* ------------------------------------------------------------------ C8
\* Index i of the text lies inside an rl.question callback of a password gate.
InCallback(text, i) ==
  \E o \in Occurrences(<<"rl.question('> ', (inputPassword) => {">>, text) :
    \E c \in Occurrences(<<"rl.close();", "});">>, text) : o < i /\ i < c

\* C8: after one application the text holds the guard block if and only if
\* addAntiBypass is set, then exactly once and outside the gate's callback;
\* it holds the password gate if and only if a password is given; with
\* neither option it equals the original source.
CexC8 ==
  wlayers = 1 =>
    /\ (Occurrences(TByypas, wtext) # {}) <=> wanti
    /\ wanti =>
         /\ Cardinality(Occurrences(TByypas, wtext)) = 1
         /\ \A i \in Occurrences(TByypas, wtext) : ~InCallback(wtext, i)
    /\ (Occurrences(GateOpen, wtext) # {}) <=> Truthy(wpassword)
    /\ (~wanti /\ ~Truthy(wpassword)) => wtext = wcode

====
